---------------------------- MODULE Spec2Model ----------------------------
(***************************************************************************)
(* OpenInterpreterChatAgent (src/open-interpreter.py): the task router,    *)
(* the streaming response decoder, the execution adapter, the JSON         *)
(* transcript logs and the aiohttp session, as one state machine.          *)
(*                                                                         *)
(* Text is a sequence of one-character strings.  A string literal of the   *)
(* program that is only ever compared or returned whole (the fallback, an  *)
(* error prefix, an exception's message) is a sequence holding one atom.   *)
(***************************************************************************)
EXTENDS Integers, Sequences, FiniteSets, TLC

(***************************************************************************)
(* Bounds of the model.                                                    *)
(***************************************************************************)
MaxCalls == 2       \* calls (messages, /oi commands) one agent accepts
MaxFrames == 3      \* frames one response body carries
MaxMsgLen == 4      \* characters of a generated message

(***************************************************************************)
(* Text primitives of the Python runtime.                                  *)
(***************************************************************************)
UpperCase == <<"A","B","C","D","E","F","G","H","I","J","K","L","M",
               "N","O","P","Q","R","S","T","U","V","W","X","Y","Z">>
LowerCase == <<"a","b","c","d","e","f","g","h","i","j","k","l","m",
               "n","o","p","q","r","s","t","u","v","w","x","y","z">>
Whitespace == {" ", "\n", "\t"}

\* str.lower() on one character
LowerChar(c) ==
    IF \E i \in 1..26 : UpperCase[i] = c
    THEN LowerCase[CHOOSE i \in 1..26 : UpperCase[i] = c]
    ELSE c

\* str.lower()
Lower(s) == [i \in 1..Len(s) |-> LowerChar(s[i])]

\* the `in` operator on two strings: kw occurs in s as a substring
Contains(s, kw) ==
    \E i \in 1..(Len(s) - Len(kw) + 1) : SubSeq(s, i, i + Len(kw) - 1) = kw

StartsWith(s, p) == Len(s) >= Len(p) /\ SubSeq(s, 1, Len(p)) = p

\* str.replace(old, ""): the non-overlapping occurrences of old, found left
\* to right in one pass, are dropped.
RECURSIVE Remove(_, _)
Remove(s, old) ==
    IF Len(s) < Len(old) THEN s
    ELSE IF StartsWith(s, old)
         THEN Remove(SubSeq(s, Len(old) + 1, Len(s)), old)
         ELSE <<s[1]>> \o Remove(Tail(s), old)

RECURSIVE LStrip(_)
LStrip(s) == IF s # <<>> /\ s[1] \in Whitespace THEN LStrip(Tail(s)) ELSE s

RECURSIVE RStrip(_)
RStrip(s) ==
    IF s # <<>> /\ s[Len(s)] \in Whitespace
    THEN RStrip(SubSeq(s, 1, Len(s) - 1))
    ELSE s

\* str.strip()
Strip(s) == RStrip(LStrip(s))

(***************************************************************************)
(* Program literals.                                                       *)
(***************************************************************************)
OpenTag == <<"<","t","h","i","n","k",">">>
CloseTag == <<"<","/","t","h","i","n","k",">">>
Fallback == <<"I understand. How can I help you?">>
OllamaErrorPrefix == <<"Error connecting to Ollama: ">>
InterpreterErrorPrefix == <<"[Error] Interpreter failed: ">>
TaskCompleted == <<"Task completed.">>

CleanLog == "ollama_response_clean_log.json"
RawLog == "ollama_response_raw_log.json"
InterpreterLog == "open_interpreter_log.json"
LogNames == {CleanLog, RawLog, InterpreterLog}

keywords ==
    { <<"f","i","l","e">>, <<"f","o","l","d","e","r">>,
      <<"c","r","e","a","t","e">>, <<"w","r","i","t","e">>,
      <<"s","a","v","e">>, <<"l","i","s","t">>,
      <<"d","e","l","e","t","e">> }

\* is_file_task without the lower(): the match is case-sensitive
is_file_task_case_sensitive(msg) == \E kw \in keywords : Contains(msg, kw)

\* is_file_task: any(kw in msg.lower() for kw in keywords)
is_file_task(msg) == \E kw \in keywords : Contains(Lower(msg), kw)


(***************************************************************************)
(* The transcript logs: one JSON-array file per log name under LOG_DIR.    *)
(* A file's text is a sequence of JSON tokens; an entry (a flat object of  *)
(* three strings) is one token.                                            *)
(***************************************************************************)
LBracket == [t |-> "[", v |-> <<>>]
RBracket == [t |-> "]", v |-> <<>>]
Comma == [t |-> ",", v |-> <<>>]
Object(e) == [t |-> "{}", v |-> <<e>>]

Entry(ts, user, response) ==
    [timestamp |-> ts, user |-> user, response |-> response]

Absent == [exists |-> FALSE, content |-> <<>>]
FileOf(text) == [exists |-> TRUE, content |-> text]

RECURSIVE DumpElements(_)
DumpElements(list) ==
    IF list = <<>> THEN <<>>
    ELSE IF Len(list) = 1 THEN <<Object(list[1])>>
    ELSE <<Object(list[1]), Comma>> \o DumpElements(Tail(list))

\* json.dump(list, f): the text of a JSON array of entries
json_dump(list) == <<LBracket>> \o DumpElements(list) \o <<RBracket>>

ParseError == [ok |-> FALSE, isList |-> FALSE, value |-> <<>>]

RECURSIVE LoadElements(_)
LoadElements(toks) ==
    IF toks = <<>> \/ toks[1].t # "{}" THEN ParseError
    ELSE IF Len(toks) = 1
         THEN [ok |-> TRUE, isList |-> TRUE, value |-> toks[1].v]
         ELSE IF Len(toks) = 2 \/ toks[2].t # "," THEN ParseError
              ELSE LET rest == LoadElements(SubSeq(toks, 3, Len(toks)))
                   IN  IF rest.ok
                       THEN [ok |-> TRUE, isList |-> TRUE,
                             value |-> toks[1].v \o rest.value]
                       ELSE ParseError

\* json.load(f): the value a file's text parses to.  ok = FALSE is
\* JSONDecodeError; a lone object parses, to a dict and not a list.
json_load(text) ==
    IF text = <<>> THEN ParseError
    ELSE IF Len(text) = 1
         THEN IF text[1].t = "{}"
              THEN [ok |-> TRUE, isList |-> FALSE, value |-> text[1].v]
              ELSE ParseError
    ELSE IF text[1].t # "[" \/ text[Len(text)].t # "]" THEN ParseError
    ELSE IF Len(text) = 2 THEN [ok |-> TRUE, isList |-> TRUE, value |-> <<>>]
    ELSE LoadElements(SubSeq(text, 2, Len(text) - 1))

\* The file's text is a JSON array of entries
WellFormed(file) ==
    LET v == json_load(file.content) IN v.ok /\ v.isList

\* TextToWrite with the new entry put first
TextToWritePrepend(file, data) ==
    IF ~file.exists THEN json_dump(<<data>>)
    ELSE LET old == json_load(file.content)
         IN  IF old.ok /\ old.isList
             THEN json_dump(<<data>> \o old.value)
             ELSE <<>>

\* TextToWrite that takes the first branch for an existing file too
TextToWriteClobber(file, data) ==
    IF file.exists /\ ~WellFormed(file) THEN <<>> ELSE json_dump(<<data>>)

\* TextToWrite that dumps data, not [data], into a new file
TextToWriteBare(file, data) ==
    IF ~file.exists THEN <<Object(data)>>
    ELSE LET old == json_load(file.content)
         IN  IF old.ok /\ old.isList
             THEN json_dump(Append(old.value, data))
             ELSE <<>>

\* The text append_to_json_log sets out to write: [data] for a new file,
\* the loaded list with data appended for an existing one; nothing when the
\* existing file does not load as a list.
TextToWrite(file, data) ==
    IF ~file.exists THEN json_dump(<<data>>)
    ELSE LET old == json_load(file.content)
         IN  IF old.ok /\ old.isList
             THEN json_dump(Append(old.value, data))
             ELSE <<>>

\* What the file system does to one append: nothing, open() refused, or a
\* write that fails after the file was truncated.  A failed write leaves a
\* strict prefix of the text, and every strict prefix of an array's text
\* fails json.load alike; two are kept, the empty one and the longest.
NoFault == [fault |-> "none", cut |-> 0]
IOOutcomes(file, data) ==
    {NoFault, [fault |-> "open", cut |-> 0]}
    \cup {[fault |-> "write", cut |-> k] :
             k \in {0, Len(TextToWrite(file, data)) - 1} \cap Nat}

\* append_to_json_log(filename, data) on the files fs under outcome io.
\* raised = "" when the call returns, else the exception's name.
append_to_json_log(fs, filename, data, io) ==
    LET file == fs[filename]
        text == TextToWrite(file, data)
        old == json_load(file.content)
    IN  IF io.fault = "open"
        THEN [files |-> fs, raised |-> "OSError"]
        ELSE IF file.exists /\ ~old.ok
        THEN [files |-> fs, raised |-> "JSONDecodeError"]
        ELSE IF file.exists /\ ~old.isList
        THEN [files |-> fs, raised |-> "AttributeError"]
        ELSE IF io.fault = "write"
        THEN [files |-> [fs EXCEPT ![filename] =
                            FileOf(SubSeq(text, 1, io.cut))],
              raised |-> "OSError"]
        ELSE [files |-> [fs EXCEPT ![filename] = FileOf(text)],
              raised |-> ""]

\* Reading a log back: the entries of the file, <<>> when it is absent or
\* does not hold a list.
ReadLog(file) ==
    LET v == json_load(file.content)
    IN  IF file.exists /\ v.ok /\ v.isList THEN v.value ELSE <<>>

(***************************************************************************)
(* Streaming frames: one line of the response body.  utf8 says whether the *)
(* line decodes; json is what json.loads makes of it ("invalid" raises     *)
(* JSONDecodeError); for an object, response is the kind of its "response" *)
(* member and text its value when that is a string.                        *)
(***************************************************************************)
Frame(utf8, json, response, text) ==
    [utf8 |-> utf8, json |-> json, response |-> response, text |-> text]

Token(text) == Frame(TRUE, "object", "str", text)   \* {"response": text}
Meta == Frame(TRUE, "object", "absent", <<>>)       \* {"done": true}
NullToken == Frame(TRUE, "object", "null", <<>>)    \* {"response": null}
NumberToken == Frame(TRUE, "object", "number", <<>>) \* {"response": 7}
NotJson == Frame(TRUE, "invalid", "absent", <<>>)   \* not-json
NonRecord == Frame(TRUE, "array", "absent", <<>>)   \* []
BadUtf8 == Frame(FALSE, "invalid", "absent", <<>>)  \* bytes that do not decode

\* A frame the protocol allows: an object whose "response", if any, is text.
ValidFrame(f) == f.utf8 /\ f.json = "object" /\ f.response \in {"str", "absent"}

\* DecodeFrame with the token put in front of the accumulator
DecodeFramePrepend(acc, f) ==
    IF ~f.utf8 THEN [acc |-> acc, raised |-> "UnicodeDecodeError"]
    ELSE IF f.json = "invalid" THEN [acc |-> acc, raised |-> ""]
    ELSE IF f.json # "object" THEN [acc |-> acc, raised |-> "AttributeError"]
    ELSE IF f.response = "number" THEN [acc |-> acc, raised |-> "TypeError"]
    ELSE IF f.response = "str" /\ f.text # <<>>
         THEN [acc |-> f.text \o acc, raised |-> ""]
         ELSE [acc |-> acc, raised |-> ""]

\* The loop body, lines 94-104, on one frame: the accumulator afterwards,
\* and the exception that leaves the loop ("" when none does).
DecodeFrame(acc, f) ==
    IF ~f.utf8 THEN [acc |-> acc, raised |-> "UnicodeDecodeError"]
    ELSE IF f.json = "invalid" THEN [acc |-> acc, raised |-> ""]
    ELSE IF f.json # "object" THEN [acc |-> acc, raised |-> "AttributeError"]
    ELSE IF f.response = "number" THEN [acc |-> acc, raised |-> "TypeError"]
    ELSE IF f.response = "str" /\ f.text # <<>>
         THEN [acc |-> acc \o f.text, raised |-> ""]
         ELSE [acc |-> acc, raised |-> ""]

\* line 107
FilterResponse(complete) == Strip(Remove(Remove(complete, OpenTag), CloseTag))

\* line 124: filtered_response or "I understand. How can I help you?"
ReturnValue(filtered) == IF filtered # <<>> THEN filtered ELSE Fallback

\* lines 125-127
OllamaError(e) == OllamaErrorPrefix \o <<e>>

(***************************************************************************)
(* What interpreter.chat hands back: a list of records, something that is  *)
(* no list, or an exception.  A record is a dict (with or without content  *)
(* and output) or another object, of which only str() is used.             *)
(***************************************************************************)
Dict(hasContent, content, hasOutput, output) ==
    [type |-> "dict", hasContent |-> hasContent, content |-> content,
     hasOutput |-> hasOutput, output |-> output, str |-> <<"{...}">>]
Other(str) ==
    [type |-> "other", hasContent |-> FALSE, content |-> <<>>,
     hasOutput |-> FALSE, output |-> <<>>, str |-> str]

ChatResult(kind, records) == [kind |-> kind, records |-> records]

\* No call of interpreter.chat in the call at hand
NoChat == ChatResult("unset", <<>>)

\* dict.get(key): the member's value, None (falsy, here <<>>) without it
GetContent(rec) == IF rec.hasContent THEN rec.content ELSE <<>>
GetOutput(rec) == IF rec.hasOutput THEN rec.output ELSE <<>>

\* NormalizeResult probing the first record of the list, not the last
NormalizeFirstRecord(result) ==
    IF result.kind = "list" /\ result.records # <<>>
    THEN LET first == result.records[1]
         IN  IF first.type = "dict"
             THEN IF GetContent(first) # <<>> THEN GetContent(first)
                  ELSE IF GetOutput(first) # <<>> THEN GetOutput(first)
                  ELSE TaskCompleted
             ELSE first.str
    ELSE TaskCompleted

\* lines 135-142
NormalizeResult(result) ==
    IF result.kind = "list" /\ result.records # <<>>
    THEN LET last == result.records[Len(result.records)]
         IN  IF last.type = "dict"
             THEN IF GetContent(last) # <<>> THEN GetContent(last)
                  ELSE IF GetOutput(last) # <<>> THEN GetOutput(last)
                  ELSE TaskCompleted
             ELSE last.str
    ELSE TaskCompleted

InterpreterError(e) == InterpreterErrorPrefix \o <<e>>

(***************************************************************************)
(* The environment's alphabets: what a user types, what the generation     *)
(* backend puts on the wire, what the execution backend returns.           *)
(***************************************************************************)
Hi == <<"h","i">>
ListIt == <<"L","i","s","t">>

Statuses == {200, 500}

Done == <<"d","o","n","e">>
Out == <<"o","u","t">>

OldEntry == Entry(0, <<"o","l","d">>, <<"o","k">>)

\* The log directory at start: every log absent, every log holding one entry
\* of an earlier run, or every log file holding a lone object (no list).
InitialFiles ==
    { [n \in LogNames |-> f] :
        f \in {Absent, FileOf(json_dump(<<OldEntry>>)),
               FileOf(<<Object(OldEntry)>>)} }

SessionMessages == {Hi, ListIt}
SessionFrames == {Token(<<"o","k">>), NonRecord}
SessionResults ==
    { ChatResult("list", <<Dict(TRUE, Done, FALSE, <<>>)>>),
      ChatResult("raise", <<>>) }

\* What interpreter.chat can hand back: lists whose last record has a
\* content, an output, both, an empty content, neither, or is no dict; the
\* empty list; no list at all; an exception.
AdapterResults ==
    { ChatResult("list", <<Dict(TRUE, Done, FALSE, <<>>)>>),
      ChatResult("list", <<Dict(TRUE, Done, TRUE, Out)>>),
      ChatResult("list", <<Dict(FALSE, <<>>, TRUE, Out)>>),
      ChatResult("list", <<Dict(TRUE, <<>>, TRUE, Out)>>),
      ChatResult("list", <<Dict(TRUE, <<>>, FALSE, <<>>)>>),
      ChatResult("list", <<Dict(FALSE, <<>>, FALSE, <<>>)>>),
      ChatResult("list", <<Other(<<"4","2">>)>>),
      ChatResult("list", <<Dict(TRUE, Out, FALSE, <<>>),
                           Dict(TRUE, Done, FALSE, <<>>)>>),
      ChatResult("list", <<Dict(TRUE, Done, FALSE, <<>>),
                           Dict(FALSE, <<>>, FALSE, <<>>)>>),
      ChatResult("list", <<>>),
      ChatResult("none", <<>>),
      ChatResult("raise", <<>>) }

\* Every text of at most n characters of S
BoundedText(S, n) == UNION { [1..k -> S] : k \in 0..n }

RouterMessages ==
    BoundedText({"s", "a", "v", "e", "A"}, MaxMsgLen)
    \cup { <<" ">>, <<" ", "\n">>, Hi, ListIt,
           <<"f","i","l","e">>, <<"F","I","L","E">>, <<"f","i","l"," ","e">>,
           <<"p","r","o","f","i","l","e","s">>,
           <<"m","y"," ","F","o","l","d","e","r">>,
           <<"C","r","e","a","t","e">>, <<"r","e","w","r","i","t","e">>,
           <<"d","e","l","e","t","E","!">>, <<"d","e","l","e","t">>,
           <<"l","i","s","t","e","n">>, <<"w","r","i","t">> }

DecoderFrames ==
    { Token(<<"a">>), Token(<<" ">>), Token(<<>>), Token(OpenTag),
      Token(CloseTag), Token(<<"<","t","h","i">>), Token(<<"n","k",">">>),
      Meta, NullToken, NumberToken, NotJson, NonRecord, BadUtf8 }

(***************************************************************************)
(* State.                                                                  *)
(***************************************************************************)
VARIABLES
    scenario,          \* which alphabets the environment draws from
    loop,              \* interactive_mode: "none", "running" or "ended"
    budget,            \* calls the agent still accepts
    clock,             \* the wall clock, in seconds
    session,           \* self.session: "none", "open" or "closed"
    clients_created,   \* aiohttp.ClientSession() constructions so far
    files,             \* LOG_DIR: log name -> file
    pc,                \* "idle", or the position inside stream_ollama_response
    entry,             \* how the last call was entered
    message,           \* its message or task
    force_interpreter, \* its force flag
    invoked,           \* the backends it invoked
    timestamp,         \* stream_ollama_response's local, line 89
    complete_response, \* its accumulator, line 87
    filtered_response, \* its clean text, line 107
    frames,            \* the frames it has read
    status,            \* the HTTP status of its response
    caught,            \* where the exception the last call caught came from
    outcome,           \* "none" while it runs, then "returned" or "raised"
    ret,               \* the value it returned
    gen_calls,         \* stream_ollama_response calls so far
    exec_calls,        \* execute_with_interpreter calls so far
    appended,          \* log name -> entries whose append returned
    fresh,             \* log name -> the file was absent at start
    faulted,           \* log names on which an append has raised
    torn,              \* log names whose file a failed write has cut short
    chat_result        \* what interpreter.chat handed the last call

vars ==
    <<scenario, loop, budget, clock, session, clients_created, files, pc,
      entry, message, force_interpreter, invoked, timestamp,
      complete_response, filtered_response, frames, status, caught, outcome,
      ret, gen_calls, exec_calls, appended, fresh, faulted, torn,
      chat_result>>

env == <<scenario, fresh, loop>>

\* The alphabets of the scenario
inputs == IF scenario = "router" THEN RouterMessages
          ELSE IF scenario = "decoder" THEN {Hi}
          ELSE SessionMessages
wire == IF scenario = "decoder" THEN DecoderFrames ELSE SessionFrames
backend == IF scenario = "adapter" THEN AdapterResults ELSE SessionResults
stream_locals ==
    <<timestamp, complete_response, filtered_response, frames, status>>
log_state == <<files, appended, faulted, torn>>
client == <<session, clients_created>>
call == <<entry, message, force_interpreter, invoked>>
result == <<caught, outcome, ret>>
counters == <<gen_calls, exec_calls>>

\* The agent after __init__ (lines 20-24), with the log directory as found.
InitAgent(sc, calls, disks) ==
    /\ scenario = sc
    /\ loop = IF sc = "interactive" THEN "running" ELSE "none"
    /\ budget = calls
    /\ clock = 1
    /\ session = "none"
    /\ clients_created = 0
    /\ files \in disks
    /\ pc = "idle"
    /\ entry = "none"
    /\ message = <<>>
    /\ force_interpreter = FALSE
    /\ invoked = {}
    /\ timestamp = 0
    /\ complete_response = <<>>
    /\ filtered_response = <<>>
    /\ frames = <<>>
    /\ status = 0
    /\ caught = "none"
    /\ outcome = "none"
    /\ ret = <<>>
    /\ gen_calls = 0
    /\ exec_calls = 0
    /\ appended = [n \in LogNames |-> <<>>]
    /\ fresh = [n \in LogNames |-> ~files[n].exists]
    /\ faulted = {}
    /\ torn = {}
    /\ chat_result = NoChat

\* datetime.now(): the clock, which may have moved on by a second
Now == {clock, clock + 1}

\* lines 46-48
create_session(s) == IF s = "none" THEN "open" ELSE s

\* close_session without its test of self.session: the session counts as
\* closed even when none was created
closed_session_untested(s) == "closed"

\* lines 50-52: a closed ClientSession is still truthy; closing it again
\* does nothing.
closed_session(s) == IF s # "none" THEN "closed" ELSE s

\* The call returns value; the locals of stream_ollama_response are gone.
Return(value, origin) ==
    /\ pc' = "idle"
    /\ outcome' = "returned"
    /\ ret' = value
    /\ caught' = origin
    /\ timestamp' = 0
    /\ complete_response' = <<>>
    /\ filtered_response' = <<>>
    /\ frames' = <<>>
    /\ status' = 0

Record(fs, name, data, raised) ==
    /\ files' = fs
    /\ appended' = IF raised = ""
                   THEN [appended EXCEPT ![name] = Append(@, data)]
                   ELSE appended
    /\ faulted' = IF raised = "" THEN faulted ELSE faulted \cup {name}
    /\ torn' = IF raised # "" /\ fs[name] # files[name]
               THEN torn \cup {name}
               ELSE torn

(***************************************************************************)
(* execute_with_interpreter, lines 129-151: synchronous, one step.         *)
(***************************************************************************)
\* interpreter.chat raised and nothing catches it: the call raises
interpreter_failed_unhandled ==
    /\ pc' = "idle"
    /\ outcome' = "raised"
    /\ ret' = <<>>
    /\ caught' = "interpreter"
    /\ UNCHANGED stream_locals

\* lines 150-151: interpreter.chat raised
interpreter_failed == Return(InterpreterError("chat failed"), "interpreter")

\* log_data with the task and the response in each other's place
interpreter_log_data_swapped(ts, task, response) == Entry(ts, response, task)

\* lines 143-147
interpreter_log_data(ts, task, response) == Entry(ts, task, response)

execute_with_interpreter(task) ==
    /\ invoked' = {"execution"}
    /\ exec_calls' = exec_calls + 1
    /\ \E chat \in backend :
         /\ chat_result' = chat
         /\ IF chat.kind = "raise"
            THEN /\ interpreter_failed
                 /\ UNCHANGED <<clock, log_state>>
            ELSE \E now \in Now :
                LET response == NormalizeResult(chat)
                    log_data == interpreter_log_data(now, task, response)
                IN  /\ clock' = now
                    /\ \E io \in IOOutcomes(files[InterpreterLog], log_data) :
                         LET r == append_to_json_log(files, InterpreterLog,
                                                     log_data, io)
                         IN  /\ Record(r.files, InterpreterLog, log_data,
                                       r.raised)
                             /\ IF r.raised = ""
                                THEN Return(response, "none")
                                ELSE Return(InterpreterError(r.raised), "log")

(***************************************************************************)
(* stream_ollama_response, lines 66-127.  Its first step runs up to the    *)
(* response of post: create_session, the timestamp, the request.           *)
(***************************************************************************)
stream_ollama_response(msg) ==
    /\ invoked' = {"generation"}
    /\ gen_calls' = gen_calls + 1
    /\ session' = create_session(session)
    /\ clients_created' = IF session = "none" THEN clients_created + 1
                          ELSE clients_created
    /\ UNCHANGED log_state
    /\ \E now \in Now, connected \in BOOLEAN, st \in Statuses :
         /\ clock' = now
         /\ IF create_session(session) = "closed"
            THEN Return(OllamaError("Session is closed"), "transport")
            ELSE IF ~connected
            THEN Return(OllamaError("Cannot connect to host"), "transport")
            ELSE /\ pc' = "stream"
                 /\ timestamp' = now
                 /\ complete_response' = <<>>
                 /\ filtered_response' = <<>>
                 /\ frames' = <<>>
                 /\ status' = st
                 /\ outcome' = "none"
                 /\ ret' = <<>>
                 /\ caught' = "none"

\* lines 157-163
process_message(msg, force) ==
    /\ pc = "idle"
    /\ budget > 0
    /\ msg \in inputs
    /\ budget' = budget - 1
    /\ entry' = "process_message"
    /\ message' = msg
    /\ force_interpreter' = force
    /\ IF force \/ is_file_task(msg)
       THEN execute_with_interpreter(msg) /\ UNCHANGED <<client, gen_calls>>
       ELSE stream_ollama_response(msg) /\ UNCHANGED exec_calls
                                        /\ chat_result' = NoChat
    /\ UNCHANGED env

\* interactive_mode, lines 177-180: "/oi <task>" goes to the interpreter
\* without routing.
oi_command(task) ==
    /\ pc = "idle"
    /\ budget > 0
    /\ task \in inputs
    /\ budget' = budget - 1
    /\ entry' = "oi"
    /\ message' = task
    /\ force_interpreter' = FALSE
    /\ execute_with_interpreter(task)
    /\ UNCHANGED <<client, gen_calls, env>>

\* lines 93-104: one frame arrives and is decoded
read_frame(f) ==
    /\ pc = "stream"
    /\ Len(frames) < MaxFrames
    /\ f \in wire
    /\ LET d == DecodeFrame(complete_response, f)
       IN  IF d.raised = ""
           THEN /\ complete_response' = d.acc
                /\ frames' = Append(frames, f)
                /\ UNCHANGED <<pc, result, timestamp, filtered_response,
                               status>>
           ELSE Return(OllamaError(d.raised), "frame")
    /\ UNCHANGED <<env, budget, clock, client, log_state, call, counters, chat_result>>

\* read_fault with no handler around the loop: the exception leaves the call
read_fault_unhandled ==
    /\ pc = "stream"
    /\ pc' = "idle"
    /\ outcome' = "raised"
    /\ ret' = <<>>
    /\ caught' = "transport"
    /\ timestamp' = 0
    /\ complete_response' = <<>>
    /\ filtered_response' = <<>>
    /\ frames' = <<>>
    /\ status' = 0
    /\ UNCHANGED <<env, budget, clock, client, log_state, call, counters, chat_result>>

\* line 93: the connection breaks while the next frame is awaited
read_fault ==
    /\ pc = "stream"
    /\ Return(OllamaError("Response payload is not completed"), "transport")
    /\ UNCHANGED <<env, budget, clock, client, log_state, call, counters, chat_result>>

\* lines 105-119: the body ends
end_stream ==
    /\ pc = "stream"
    /\ filtered_response' = FilterResponse(complete_response)
    /\ pc' = "log_clean"
    /\ UNCHANGED <<env, budget, clock, client, log_state, call, counters, chat_result,
                   result, timestamp, complete_response, frames, status>>

\* clean_data holding the raw text
clean_data_unfiltered == Entry(timestamp, message, Strip(complete_response))

\* raw_data with a timestamp of its own, taken a second later
raw_data_own_timestamp ==
    Entry(timestamp + 1, message, Strip(complete_response))

\* lines 109-113
clean_data == Entry(timestamp, message, filtered_response)

\* lines 115-119
raw_data == Entry(timestamp, message, Strip(complete_response))

\* line 121
log_clean(io) ==
    /\ pc = "log_clean"
    /\ io \in IOOutcomes(files[CleanLog], clean_data)
    /\ LET r == append_to_json_log(files, CleanLog, clean_data, io)
       IN  /\ Record(r.files, CleanLog, clean_data, r.raised)
           /\ IF r.raised = ""
              THEN pc' = "log_raw" /\ UNCHANGED <<result, stream_locals>>
              ELSE Return(OllamaError(r.raised), "log")
    /\ UNCHANGED <<env, budget, clock, client, call, counters, chat_result>>

\* lines 122-124
log_raw(io) ==
    /\ pc = "log_raw"
    /\ io \in IOOutcomes(files[RawLog], raw_data)
    /\ LET r == append_to_json_log(files, RawLog, raw_data, io)
       IN  /\ Record(r.files, RawLog, raw_data, r.raised)
           /\ IF r.raised = ""
              THEN Return(ReturnValue(filtered_response), "none")
              ELSE Return(OllamaError(r.raised), "log")
    /\ UNCHANGED <<env, budget, clock, client, call, counters, chat_result>>

\* lines 50-52, called between two calls
close_session ==
    /\ pc = "idle"
    /\ session' = closed_session(session)
    /\ UNCHANGED <<env, budget, clock, clients_created, log_state, pc, call,
                   stream_locals, result, counters,
                   chat_result>>

\* The caller: between two calls, while the agent accepts calls, any
\* message with or without the force flag, or an /oi command.
Accepting == pc = "idle" /\ budget > 0

Message ==
    /\ Accepting
    /\ \E msg \in inputs, force \in BOOLEAN : process_message(msg, force)

OiCommand ==
    /\ Accepting
    /\ \E task \in inputs : oi_command(task)

ReadFrame ==
    /\ pc = "stream"
    /\ \E f \in wire : read_frame(f)

LogClean == \E io \in IOOutcomes(files[CleanLog], clean_data) : log_clean(io)

LogRaw == \E io \in IOOutcomes(files[RawLog], raw_data) : log_raw(io)

Next ==
    \/ Message
    \/ OiCommand
    \/ ReadFrame
    \/ read_fault
    \/ end_stream
    \/ LogClean
    \/ LogRaw
    \/ close_session

(***************************************************************************)
(* interactive_mode, lines 165-187: the loop reads a line, dispatches it,  *)
(* and ends on a quit command or on an exception; its finally clause       *)
(* closes the session on every way out.                                    *)
(***************************************************************************)
Running == loop = "running"

\* lines 169-170 with the finally clause left out: break, and return
quit_without_close ==
    /\ Running
    /\ pc = "idle"
    /\ loop' = "ended"
    /\ entry' = "quit"
    /\ UNCHANGED <<scenario, fresh, budget, clock, client, log_state, pc,
                   message, force_interpreter, invoked, stream_locals, result,
                   counters, chat_result>>

\* lines 169-170, 186-187: "/quit" or "exit"
quit ==
    /\ Running
    /\ pc = "idle"
    /\ loop' = "ended"
    /\ entry' = "quit"
    /\ session' = closed_session(session)
    /\ UNCHANGED <<scenario, fresh, budget, clock, clients_created, log_state,
                   pc, message, force_interpreter, invoked, stream_locals,
                   result, counters, chat_result>>

\* lines 168, 184-187: input() raises (end of input); the handler of the
\* loop prints the exception
input_fault ==
    /\ Running
    /\ pc = "idle"
    /\ loop' = "ended"
    /\ entry' = "input_fault"
    /\ session' = closed_session(session)
    /\ UNCHANGED <<scenario, fresh, budget, clock, clients_created, log_state,
                   pc, message, force_interpreter, invoked, stream_locals,
                   result, counters, chat_result>>

\* lines 93, 125, 184-187: the task is cancelled while it awaits a frame;
\* neither except Exception catches a CancelledError, the finally clause
\* runs while it passes
interrupt ==
    /\ Running
    /\ pc = "stream"
    /\ loop' = "ended"
    /\ pc' = "idle"
    /\ outcome' = "raised"
    /\ ret' = <<>>
    /\ caught' = "none"
    /\ timestamp' = 0
    /\ complete_response' = <<>>
    /\ filtered_response' = <<>>
    /\ frames' = <<>>
    /\ status' = 0
    /\ session' = closed_session(session)
    /\ UNCHANGED <<scenario, fresh, budget, clock, clients_created, log_state,
                   call, counters, chat_result>>

\* line 182: a message goes to process_message without the force flag
InteractiveMessage ==
    /\ Running
    /\ Accepting
    /\ \E msg \in inputs : process_message(msg, FALSE)

\* lines 177-180
InteractiveOi == Running /\ OiCommand

interactive_mode ==
    \/ InteractiveMessage
    \/ InteractiveOi
    \/ ReadFrame
    \/ read_fault
    \/ end_stream
    \/ LogClean
    \/ LogRaw
    \/ quit
    \/ input_fault
    \/ interrupt

(***************************************************************************)
(* Specifications.  Spec is a session of MaxCalls calls on small           *)
(* alphabets; SpecRouter, SpecDecoder and SpecAdapter are one call each,   *)
(* on the alphabet of the component they exercise; SpecInteractive is a    *)
(* run of interactive_mode.                                                *)
(***************************************************************************)
Init == InitAgent("session", MaxCalls, InitialFiles)

Spec == Init /\ [][Next]_vars

InitRouter == InitAgent("router", 1, {[n \in LogNames |-> Absent]})

SpecRouter == InitRouter /\ [][Next]_vars

InitDecoder == InitAgent("decoder", 1, InitialFiles)

SpecDecoder == InitDecoder /\ [][Next]_vars

InitAdapter == InitAgent("adapter", 1, InitialFiles)

SpecAdapter == InitAdapter /\ [][Next]_vars

InitInteractive == InitAgent("interactive", MaxCalls, InitialFiles)

SpecInteractive == InitInteractive /\ [][interactive_mode]_vars

(***************************************************************************)
(* Properties.                                                             *)
(***************************************************************************)
RoutingKeywords ==
    { <<"f","i","l","e">>, <<"f","o","l","d","e","r">>,
      <<"c","r","e","a","t","e">>, <<"w","r","i","t","e">>,
      <<"s","a","v","e">>, <<"l","i","s","t">>,
      <<"d","e","l","e","t","e">> }

HasKeyword(msg) == \E kw \in RoutingKeywords : Contains(Lower(msg), kw)

\* C1: a message that came through process_message invoked exactly one
\* backend: execution if the force flag was set or the lower-cased message
\* contains a routing keyword, generation otherwise.
RoutingContract ==
    (entry = "process_message") =>
        (invoked = IF force_interpreter \/ HasKeyword(message)
                   THEN {"execution"}
                   ELSE {"generation"})

\* C1 witness: a keyword in mixed case, no force flag, routed to execution
RoutingWitness ==
    /\ entry = "process_message"
    /\ ~force_interpreter
    /\ message = <<"s","A","v","e">>
    /\ invoked = {"execution"}

\* The text token a frame carries, <<>> when it carries none
TokenOf(f) ==
    IF f.utf8 /\ f.json = "object" /\ f.response = "str" THEN f.text ELSE <<>>

RECURSIVE ConcatTokens(_)
ConcatTokens(fs) ==
    IF fs = <<>> THEN <<>> ELSE TokenOf(fs[1]) \o ConcatTokens(Tail(fs))

AllValid(fs) == \A i \in 1..Len(fs) : ValidFrame(fs[i])

\* Both tags dropped, the open tag first, and the ends trimmed
CleanOf(text) == Strip(Remove(Remove(text, OpenTag), CloseTag))

LastOf(list) == list[Len(list)]

\* C2: once a body of valid frames has ended, the clean text is the frames'
\* tokens concatenated in arrival order, tags dropped and trimmed, and the
\* raw text, as prepared and as logged, is that concatenation trimmed.
TextsPrepared ==
    (pc \in {"log_clean", "log_raw"} /\ AllValid(frames)) =>
        /\ filtered_response = CleanOf(ConcatTokens(frames))
        /\ raw_data.response = Strip(ConcatTokens(frames))

RawTextLogged ==
    (pc = "log_raw" /\ pc' = "idle" /\ caught' = "none" /\ AllValid(frames))
        => LastOf(ReadLog(files'[RawLog])).response
               = Strip(ConcatTokens(frames))

DecoderConcatenation == []TextsPrepared /\ [][RawTextLogged]_vars

\* C2 witness: three valid frames, one without a token, whose clean and raw
\* texts differ
DecoderWitness ==
    /\ pc = "log_raw"
    /\ frames = <<Token(OpenTag), Meta, Token(<<"a">>)>>
    /\ filtered_response = <<"a">>
    /\ raw_data.response = OpenTag \o <<"a">>

\* C3, as claimed: no frame ends the call, and the clean text is that of
\* the well-formed frames alone.
MalformedFrameSkipped ==
    /\ caught # "frame"
    /\ (pc \in {"log_clean", "log_raw"}) =>
           (filtered_response
                = CleanOf(ConcatTokens(SelectSeq(frames, ValidFrame))))

\* C4, as claimed: the call never returns the empty string, and a call
\* whose clean text is empty returns the fallback.
EmptyCleanReturnsFallback ==
    (pc \in {"log_clean", "log_raw"} /\ pc' = "idle"
        /\ filtered_response = <<>>) => ret' = Fallback

FallbackWhenEmpty ==
    /\ [](outcome = "returned" => ret # <<>>)
    /\ [][EmptyCleanReturnsFallback]_vars

\* C5, as claimed: between calls, a log that started absent holds one entry
\* per call of its kind made so far.
EveryExchangeLogged ==
    pc = "idle" =>
        /\ fresh[CleanLog] => Len(ReadLog(files[CleanLog])) = gen_calls
        /\ fresh[RawLog] => Len(ReadLog(files[RawLog])) = gen_calls
        /\ fresh[InterpreterLog] =>
               Len(ReadLog(files[InterpreterLog])) = exec_calls

\* C6: a log that did not exist at start and whose appends all returned
\* reads back as exactly the entries appended, in append order.
FreshLogRoundTrip ==
    \A n \in LogNames :
        fresh[n] /\ n \notin faulted =>
            /\ ReadLog(files[n]) = appended[n]
            /\ files[n].exists <=> appended[n] # <<>>

\* C6 witness: two different entries appended to a fresh log
FreshLogWitness ==
    /\ fresh[InterpreterLog]
    /\ InterpreterLog \notin faulted
    /\ Len(appended[InterpreterLog]) = 2
    /\ appended[InterpreterLog][1] # appended[InterpreterLog][2]

\* C7: an append that returns on an existing log of K entries leaves it
\* with those K entries, unchanged and in order, followed by the new one,
\* and leaves every other log file as it was.
AppendStep ==
    \A n \in LogNames :
        (Len(appended'[n]) = Len(appended[n]) + 1 /\ WellFormed(files[n])) =>
            /\ ReadLog(files'[n])
                   = Append(ReadLog(files[n]), LastOf(appended'[n]))
            /\ \A m \in LogNames \ {n} : files'[m] = files[m]

AppendFrame == [][AppendStep]_vars

\* C7 witness: an entry appended to a log that held an earlier run's entry
AppendWitness ==
    /\ ~fresh[CleanLog]
    /\ Len(appended[CleanLog]) = 1
    /\ ReadLog(files[CleanLog]) = <<OldEntry>> \o appended[CleanLog]

\* C8, as claimed: a call in which a log append raised ends by raising.
LogFaultPropagates == caught = "log" => outcome = "raised"

\* C9: a call that met a transport fault (no connection, a closed client,
\* a broken body) returned a string prefixed "Error connecting to Ollama:".
TransportFaultReturned ==
    caught = "transport" =>
        /\ pc = "idle"
        /\ outcome = "returned"
        /\ StartsWith(ret, OllamaErrorPrefix)

\* C9 witness: the body broke while a frame was awaited
TransportFaultWitness ==
    /\ caught = "transport"
    /\ outcome = "returned"
    /\ ret = OllamaError("Response payload is not completed")

\* C10, as claimed: a call whose response had a non-2xx status returns the
\* error string.
ErrorStatusStep ==
    (pc # "idle" /\ pc' = "idle" /\ status \notin 200..299)
        => StartsWith(ret', OllamaErrorPrefix)

ErrorStatusReturned == [][ErrorStatusStep]_vars

(***************************************************************************)
(* The execution adapter and the interactive loop.                         *)
(***************************************************************************)
InterpreterFaultStep ==
    (exec_calls' = exec_calls + 1 /\ chat_result'.kind = "raise")
        => /\ outcome' = "returned"
           /\ StartsWith(ret', InterpreterErrorPrefix)
           /\ pc' = "idle"
           /\ loop' = loop

\* C11: an execution call in which interpreter.chat raises returns a string
\* that starts with "[Error] Interpreter failed:"; nothing is raised, the
\* agent is idle again and a running interactive loop keeps running, so the
\* next message is accepted.
InterpreterFaultContained == [][InterpreterFaultStep]_vars

\* interpreter.chat has raised inside the interactive loop, which is still
\* running and has calls left to accept
InterpreterFaultWitness ==
    /\ chat_result.kind = "raise"
    /\ StartsWith(ret, InterpreterErrorPrefix)
    /\ outcome = "returned"
    /\ Running
    /\ Accepting

\* The last record of the list interpreter.chat returned
LastRecord == chat_result.records[Len(chat_result.records)]

HasRecords == chat_result.kind = "list" /\ chat_result.records # <<>>

\* The last call was an execution call and returned its normalized response
ExecutionReturned ==
    /\ invoked = {"execution"}
    /\ outcome = "returned"
    /\ caught = "none"

ClientCounts ==
    /\ clients_created <= 1
    /\ gen_calls = 0 => (session = "none" /\ clients_created = 0)
    /\ gen_calls > 0 => (session # "none" /\ clients_created = 1)

ClientStep ==
    /\ (gen_calls' = gen_calls + 1 /\ session # "none")
         => (session' = session /\ clients_created' = clients_created)
    /\ (close_session /\ session \in {"none", "closed"}) => UNCHANGED vars

\* C13: no client exists before the first generation call, at most one
\* client is ever created, a generation call that finds a client keeps it,
\* and close_session changes nothing when no client was created or the
\* client is closed already.
SingleClient == []ClientCounts /\ [][ClientStep]_vars

\* Two generation calls with a close_session between them, on one client
SingleClientWitness ==
    /\ gen_calls = 2
    /\ clients_created = 1
    /\ session = "closed"

(***************************************************************************)
(* The execution log.                                                      *)
(***************************************************************************)
\* An execution call returns its normalized response in this step
ExecutionReturns ==
    /\ exec_calls' = exec_calls + 1
    /\ outcome' = "returned"
    /\ caught' = "none"

ExecutionLogStep ==
    ExecutionReturns =>
        LET before == ReadLog(files[InterpreterLog])
            after == ReadLog(files'[InterpreterLog])
        IN  /\ Len(after) = Len(before) + 1
            /\ SubSeq(after, 1, Len(before)) = before
            /\ LastOf(after).user = message'
            /\ LastOf(after).response = ret'
            /\ files'[CleanLog] = files[CleanLog]
            /\ files'[RawLog] = files[RawLog]

\* C14: an execution call that returns a normalized response appends
\* exactly one entry to the execution log and leaves the two generation
\* logs as they were; the entry's input is the task and its output is the
\* string the call returns, "Task completed." included.
ExecutionLogged == [][ExecutionLogStep]_vars

\* An execution call has returned "Task completed." and the last entry of
\* the execution log holds it
ExecutionLoggedWitness ==
    /\ ExecutionReturned
    /\ chat_result = ChatResult("list", <<>>)
    /\ ret = TaskCompleted
    /\ files[InterpreterLog].exists
    /\ Len(ReadLog(files[InterpreterLog])) = 2
    /\ LastOf(ReadLog(files[InterpreterLog])).response = TaskCompleted

(***************************************************************************)
(* The log files as a whole.                                               *)
(***************************************************************************)
EntryFields == {"timestamp", "user", "response"}

\* C15: a log file that was absent at start and on which no write was cut
\* short is, once it exists, a JSON list of at least one entry (no bare
\* entry, no empty or partial text), each entry with a timestamp, an input
\* and an output; the list is the entries appended, in order.
LogsWellFormed ==
    \A n \in LogNames :
        (fresh[n] /\ n \notin torn /\ files[n].exists)
            => /\ WellFormed(files[n])
               /\ ReadLog(files[n]) # <<>>
               /\ ReadLog(files[n]) = appended[n]
               /\ \A i \in 1..Len(ReadLog(files[n])) :
                    DOMAIN ReadLog(files[n])[i] = EntryFields

\* After a generation call and an execution call on absent logs all three
\* logs exist, with one entry each
LogsWellFormedWitness ==
    /\ \A n \in LogNames :
         fresh[n] /\ files[n].exists /\ Len(ReadLog(files[n])) = 1
    /\ exec_calls = 1
    /\ gen_calls = 1
    /\ pc = "idle"

(***************************************************************************)
(* The end of interactive_mode.                                            *)
(***************************************************************************)
Ended == loop = "ended"

ReleasedAtEnd == Ended => (session # "open" /\ pc = "idle")

NothingAfterEnd ==
    Ended => UNCHANGED <<gen_calls, exec_calls, session, files, budget>>

\* C16: however interactive_mode ends (a quit command, input() raising, a
\* cancellation passing through a message), a client that was created is
\* closed when it has ended, and no message or command is processed after
\* that.
ReleasedOnEveryExit == []ReleasedAtEnd /\ [][NothingAfterEnd]_vars

\* interactive_mode has ended on a quit command after a generation call
\* created the client
ReleasedWitness ==
    /\ Ended
    /\ entry = "quit"
    /\ clients_created = 1
    /\ session = "closed"

(***************************************************************************)
(* The tag filter and the two generation logs.                             *)
(***************************************************************************)
\* C17: the clean text of a body that has ended holds no "<think>" and no
\* "</think>".
CleanHasNoTags ==
    (pc \in {"log_clean", "log_raw"})
        => /\ ~Contains(filtered_response, OpenTag)
           /\ ~Contains(filtered_response, CloseTag)

\* The clean log and the raw log hold as many entries, and the entries at
\* one position have the same timestamp and input
Aligned ==
    LET c == ReadLog(files[CleanLog])
        r == ReadLog(files[RawLog])
    IN  /\ Len(c) = Len(r)
        /\ \A i \in 1..Len(c) :
             i <= Len(r) => /\ c[i].timestamp = r[i].timestamp
                            /\ c[i].user = r[i].user

BetweenCallsOnFreshLogs == pc = "idle" /\ fresh[CleanLog] /\ fresh[RawLog]

GenerationCallStarts == gen_calls' = gen_calls + 1

ObtainsOpenClient == GenerationCallStarts => session' = "open"

\* C19: a generation call has an open client when it sends its request,
\* also when close_session ran before it: it creates one if needed.
RequestOnOpenClient == [][ObtainsOpenClient]_vars

\* A generation call in this step returns what the clean log and the raw
\* log got, no exception caught
GenerationReturns ==
    /\ pc = "log_raw"
    /\ pc' = "idle"
    /\ caught' = "none"

LoggedClean == LastOf(ReadLog(files[CleanLog])).response

ReturnedIsLoggedStep == GenerationReturns => ret' = LoggedClean'

\* C20: a generation call that completes without a fault returns the very
\* string that is the output of the entry it appended to the clean log.
ReturnedIsLogged == [][ReturnedIsLoggedStep]_vars

ReturnedIsLoggedOrFallbackStep ==
    GenerationReturns =>
        /\ LoggedClean' # <<>> => ret' = LoggedClean'
        /\ LoggedClean' = <<>> => ret' = Fallback
        /\ LoggedClean' = FilterResponse(complete_response)

\* C20, amended: a generation call that completes without a fault returns
\* the output of the entry it appended to the clean log when that output
\* is not empty; when it is empty, the entry keeps the empty clean text and
\* the call returns the fallback string.
ReturnedIsLoggedOrFallback == [][ReturnedIsLoggedOrFallbackStep]_vars

\* A body of tags alone: the clean entry's output is empty, the call has
\* returned the fallback
ReturnedFallbackWitness ==
    /\ invoked = {"generation"}
    /\ outcome = "returned"
    /\ caught = "none"
    /\ ret = Fallback
    /\ LoggedClean = <<>>
    /\ LastOf(ReadLog(files[RawLog])).response = OpenTag \o CloseTag

=============================================================================
